---- MODULE Spec2Model ----
(***************************************************************************)
(* A model of the two tweet-posting activities of my_digital_being,        *)
(* PostRecentMemoriesTweetActivity and PostTweetActivity, and of the       *)
(* XAPISkill they post through.                                            *)
(*                                                                         *)
(* A Python str is the sequence of its tokens (a token is a character or   *)
(* a substring that no operation of the code cuts); the separator "=>"     *)
(* and the blank " " are tokens of their own, so that split("=>"),         *)
(* startswith, strip, len and slicing act on the sequence as they act on   *)
(* the string.  A Python value carries its type in the field t; a dict is  *)
(* the sequence of its <<key, value>> items in insertion order.            *)
(***************************************************************************)
EXTENDS Integers, Sequences, FiniteSets, TLC

VARIABLES
    memory,                  \* the memory store: activity records, oldest first
    num_activities_to_fetch, \* PostRecentMemoriesTweetActivity's field
    run,                     \* the last invocation of execute: result, calls, locals
    x_api,                   \* one XAPISkill instance shared by concurrent callers
    posting                  \* the post_tweet calls made on x_api, finished or suspended

vars == <<memory, num_activities_to_fetch, run, x_api, posting>>

(***************************************************************************)
(* Sequences.                                                              *)
(***************************************************************************)
Range(s) == {s[i] : i \in DOMAIN s}

Reverse(s) == [i \in 1..Len(s) |-> s[Len(s) + 1 - i]]

Take(s, n) == SubSeq(s, 1, IF n < Len(s) THEN n ELSE Len(s))

RECURSIVE Concat(_)
Concat(ss) == IF ss = <<>> THEN <<>> ELSE Head(ss) \o Concat(Tail(ss))

(***************************************************************************)
(* Python values.                                                          *)
(***************************************************************************)
PyNone == [t |-> "none", v |-> <<"None">>]

PyTrue == [t |-> "bool", v |-> <<"True">>]

PyFalse == [t |-> "bool", v |-> <<"False">>]

Str(s) == [t |-> "str", v |-> s]

Dict(items) == [t |-> "dict", v |-> items]

List(elems) == [t |-> "list", v |-> elems]

Obj(r) == [t |-> "obj", v |-> <<r>>]

EmptyDict == Dict(<<>>)

(* bool(val): None, False, the empty str, dict and list are falsy.         *)
Truthy(val) ==
    CASE val.t = "none" -> FALSE
      [] val.t = "bool" -> val.v = <<"True">>
      [] val.t \in {"str", "dict", "list"} -> val.v # <<>>
      [] OTHER -> TRUE

HasKey(d, k) == \E i \in DOMAIN d.v : d.v[i][1] = k

(* dict.get(k, default): the value stored under k, also when it is None.   *)
Get(d, k, default) ==
    IF HasKey(d, k)
    THEN d.v[CHOOSE i \in DOMAIN d.v : d.v[i][1] = k][2]
    ELSE default

(* repr(val): a str in quotes, a dict as {'k': v, ...}, a list of str as   *)
(* ['a', ...]; an object of any other class prints a text that is not a    *)
(* Python literal.                                                         *)
RECURSIVE Repr(_)
RECURSIVE ReprItems(_)
Repr(val) ==
    CASE val.t = "str" -> <<"'">> \o val.v \o <<"'">>
      [] val.t = "dict" -> <<"{">> \o ReprItems(val.v) \o <<"}">>
      [] val.t = "list" ->
            <<"[">> \o Concat([i \in DOMAIN val.v |->
                                  (IF i > 1 THEN <<",", " ">> ELSE <<>>)
                                  \o <<"'">> \o val.v[i] \o <<"'">>]) \o <<"]">>
      [] OTHER -> val.v

ReprItems(items) ==
    IF items = <<>> THEN <<>>
    ELSE <<"'", items[1][1], "'", ":", " ">> \o Repr(items[1][2])
         \o (IF Len(items) > 1 THEN <<",", " ">> \o ReprItems(Tail(items)) ELSE <<>>)

RECURSIVE IsLiteral(_)
IsLiteral(val) ==
    CASE val.t \in {"str", "none", "bool"} -> TRUE
      [] val.t = "dict" -> \A i \in DOMAIN val.v : IsLiteral(val.v[i][2])
      [] val.t = "list" -> TRUE
      [] OTHER -> FALSE

(* str.strip(): leading and trailing whitespace removed.                   *)
RECURSIVE lstrip(_)
lstrip(s) == IF s # <<>> /\ Head(s) = " " THEN lstrip(Tail(s)) ELSE s

strip(s) == Reverse(lstrip(Reverse(lstrip(s))))

(***************************************************************************)
(* Activity records and the memory store.                                  *)
(***************************************************************************)
PRMT == "PostRecentMemoriesTweetActivity"

PTA == "PostTweetActivity"

ignored_activity_types == {PRMT, PTA}

ActivityRecord(type, success, data) ==
    [success |-> success, data |-> data, activity_type |-> type]

(* Memory.get_recent_activities(limit, offset=0): the limit most recent    *)
(* records, newest first.                                                  *)
get_recent_activities(mem, limit) == Take(Reverse(mem), limit)

(* The framework stores the outcome of a run as an activity record.        *)
StoredRecord(type, result) ==
    ActivityRecord(type, result.success,
                   IF result.data.t = "dict" THEN result.data ELSE EmptyDict)

(***************************************************************************)
(* PostRecentMemoriesTweetActivity: the digest and the dedup list.         *)
(***************************************************************************)
RecentWindow == 50

UsedWindow == 10

DefaultFetch == 10

(* f"{act_type} => {act.get('data', {})}" *)
Summary(act) == <<act.activity_type, " ", "=>", " ">> \o Repr(act.data)

(* only the activity's own records skipped *)
IsIgnored_SelfOnly(act) == act.activity_type = PRMT

(* act_type in self.ignored_activity_types *)
IsIgnored(act) == act.activity_type \in ignored_activity_types

RECURSIVE ScanRecent(_, _, _, _)
ScanRecent(acts, i, memories, limit) ==
    IF i > Len(acts) THEN memories
    ELSE IF IsIgnored(acts[i])
         THEN ScanRecent(acts, i + 1, memories, limit)
         ELSE LET appended == Append(memories, Summary(acts[i]))
              IN IF Len(appended) >= limit THEN appended
                 ELSE ScanRecent(acts, i + 1, appended, limit)

_get_recent_memories(mem, limit) ==
    ScanRecent(get_recent_activities(mem, RecentWindow), 1, <<>>, limit)

RECURSIVE ScanUsed(_, _)
ScanUsed(acts, i) ==
    IF i > Len(acts) THEN <<>>
    ELSE IF acts[i].activity_type = PRMT /\ acts[i].success
         THEN LET used == Get(acts[i].data, "recent_memories_used", List(<<>>))
              IN IF Truthy(used) THEN used.v ELSE ScanUsed(acts, i + 1)
         ELSE ScanUsed(acts, i + 1)

_get_memories_used_last_time(mem) ==
    ScanUsed(get_recent_activities(mem, UsedWindow), 1)

(* the filter left out: every digest entry is carried forward *)
FilterNew_KeepAll(recent_memories, used) == recent_memories

(* [m for m in recent_memories if m not in used_memories_last_time] *)
FilterNew(recent_memories, used) ==
    SelectSeq(recent_memories, LAMBDA m : m \notin Range(used))

(***************************************************************************)
(* Data of the records other activities leave in the store.                *)
(***************************************************************************)
UrlCat == <<"https", ":", "//", "img.example", "/cat.png">>

UrlDog == <<"https", ":", "//", "img.example", "/dog.png">>

UrlNoScheme == <<"//", "img.example", "/cat.png">>

UrlNoHost == <<"https", ":", "/cat.png">>

UrlBare == <<"/cat.png">>

ImageData(url) == <<"image_data", Dict(<< <<"url", Str(url)>> >>)>>

NapData == EmptyDict

DrawCat == Dict(<< <<"prompt", Str(<<"a", " ", "cat">>)>>, ImageData(UrlCat) >>)

DrawDog == Dict(<< ImageData(UrlDog) >>)

DrawNoScheme == Dict(<< ImageData(UrlNoScheme) >>)

DrawNoHost == Dict(<< ImageData(UrlNoHost) >>)

DrawBare == Dict(<< ImageData(UrlBare) >>)

DrawNoImage == Dict(<< <<"prompt", Str(<<"a", " ", "cat">>)>> >>)

DrawNoUrl == Dict(<< <<"image_data", EmptyDict>> >>)

(* a prompt that holds the text "=>" *)
DrawArrow ==
    Dict(<< <<"prompt", Str(<<"cat", " ", "=>", " ", "dog">>)>>, ImageData(UrlCat) >>)

(* a value that repr() does not print as a literal *)
DrawStamped ==
    Dict(<< ImageData(UrlDog), <<"created", Obj("datetime.datetime(2025, 1, 1, 0, 0)")>> >>)

DataPool ==
    {NapData, DrawCat, DrawDog, DrawNoScheme, DrawNoHost, DrawBare, DrawNoImage,
     DrawNoUrl, DrawArrow, DrawStamped}

(***************************************************************************)
(* _extract_drawing_urls.                                                  *)
(***************************************************************************)
(* memory.startswith("DrawActivity =>") *)
StartsWithDraw(m) ==
    Len(m) >= 3 /\ m[1] = "DrawActivity" /\ m[2] = " " /\ m[3] = "=>"

(* memory.split("=>")[1]: the text between the first "=>" and the next.    *)
SplitArrowSecond(m) ==
    LET arrows == {i \in DOMAIN m : m[i] = "=>"}
        first == CHOOSE i \in arrows : \A j \in arrows : i <= j
        later == {i \in arrows : i > first}
        stop == IF later = {} THEN Len(m) + 1
                ELSE CHOOSE i \in later : \A j \in later : i <= j
    IN SubSeq(m, first + 1, stop - 1)

(* eval(data_str) of a text that repr() printed: the value it denotes when *)
(* the text is a complete literal, an exception otherwise.                  *)
Evaluable == {d \in DataPool : IsLiteral(d)}

EvalRaises(text) == \A d \in Evaluable : Repr(d) # text

Eval(text) == CHOOSE d \in Evaluable : Repr(d) = text

(* urlparse(url): the scheme is the text before a leading ":", the netloc  *)
(* the text that follows "//" up to the next "/".                          *)
Delimiters == {":", "//", "/cat.png", "/dog.png"}

urlparse(url) ==
    LET has_scheme == Len(url) >= 2 /\ url[1] \notin Delimiters /\ url[2] = ":"
        rest == IF has_scheme THEN SubSeq(url, 3, Len(url)) ELSE url
        has_netloc == Len(rest) >= 2 /\ rest[1] = "//" /\ rest[2] \notin Delimiters
    IN [scheme |-> IF has_scheme THEN url[1] ELSE "",
        netloc |-> IF has_netloc THEN rest[2] ELSE ""]

(* The body of the loop for one memory: the URLs it appends.  Any          *)
(* exception inside the try block is caught and the entry is skipped.      *)
DrawingUrlsOf(m) ==
    IF ~StartsWithDraw(m) THEN <<>>
    ELSE LET data_str == strip(SplitArrowSecond(m))
         IN IF EvalRaises(data_str) THEN <<>>
            ELSE LET data == Eval(data_str)
                     image_data == Get(data, "image_data", PyNone)
                 IN IF ~HasKey(data, "image_data") THEN <<>>
                    ELSE IF image_data.t # "dict" THEN <<>>
                    ELSE IF ~HasKey(image_data, "url") THEN <<>>
                    ELSE LET url == Get(image_data, "url", PyNone)
                         IN IF url.t # "str" THEN <<>>
                            ELSE LET result == urlparse(url.v)
                                 IN IF result.scheme # "" /\ result.netloc # ""
                                    THEN <<url.v>>
                                    ELSE <<>>

_extract_drawing_urls(memories) ==
    Concat([i \in DOMAIN memories |-> DrawingUrlsOf(memories[i])])

(***************************************************************************)
(* The external collaborators' answers.  An exception raised by a call is  *)
(* the value Raise(message).  Every call execute makes is logged in        *)
(* run.calls with its argument and its answer.                             *)
(***************************************************************************)
Raise(msg) == [t |-> "raise", v |-> <<msg>>]

(* an exception whose str() is empty, as asyncio.TimeoutError() *)
RaiseNoMessage == [t |-> "raise", v |-> <<>>]

(* str(e) *)
StrOf(e) == Str(e.v)

(* Memory.get_recent_activities returned the records *)
StoreRead == [t |-> "records", v |-> <<>>]

Absent == [t |-> "absent", v |-> <<>>]

Call(op, arg, ret) == [op |-> op, arg |-> arg, ret |-> ret]

(* a dict built from optional items: a key whose value is Absent is left out *)
DictOf(items) == Dict(SelectSeq(items, LAMBDA kv : kv[2].t # "absent"))

ChatOk(content) ==
    Dict(<< <<"success", PyTrue>>,
            <<"data", Dict(<< <<"content", Str(content)>>,
                              <<"model", Str(<<"gpt">>)>>,
                              <<"finish_reason", Str(<<"stop">>)>> >>)>> >>)

ChatFailed(msg) == Dict(<< <<"success", PyFalse>>, <<"error", Str(<<msg>>)>> >>)

(* the posting API's response: the keys "success", "successfull", "error"  *)
(* and "data" (None, or a dict that may hold data.id), each optional        *)
PostResponse(success, successfull, error, data) ==
    DictOf(<< <<"success", success>>, <<"successfull", successfull>>,
              <<"error", error>>, <<"data", data>> >>)

PostData(id) == Dict(<< <<"data", DictOf(<< <<"id", id>> >>)>> >>)

TweetId == Str(<<"1789">>)

PostOk == PostResponse(Absent, PyTrue, Absent, PostData(TweetId))

PostFailed == PostResponse(Absent, PyFalse, Str(<<"duplicate content">>), Absent)

(* the media upload API's response *)
UploadResponse(successful, successfull, media_id, data_media_id) ==
    DictOf(<< <<"successful", successful>>, <<"successfull", successfull>>,
              <<"media_id", media_id>>,
              <<"data", IF data_media_id.t = "absent" THEN Absent
                        ELSE Dict(<< <<"media_id", data_media_id>> >>)>> >>)

UploadOk(id) == [status |-> 200, response |-> UploadResponse(Absent, PyTrue, Absent, Str(<<id>>))]

UploadNotFound == [status |-> 404, response |-> Absent]

UploadRefused ==
    [status |-> 200, response |-> DictOf(<< <<"error", Str(<<"too large">>)>> >>)]

(***************************************************************************)
(* XAPISkill.                                                              *)
(***************************************************************************)
XAPISkill(enabled, rate_limit) ==
    [enabled |-> enabled, rate_limit |-> rate_limit, posts_count |-> 0]

DefaultRateLimit == 100

can_post(skill) == skill.enabled /\ skill.posts_count < skill.rate_limit

(* The media id an upload response yields, None when it yields none.       *)
MediaIdOf(upload_response) ==
    IF upload_response.t # "dict" THEN PyNone
    ELSE IF Truthy(Get(upload_response, "successful", PyNone))
            \/ Truthy(Get(upload_response, "successfull", PyNone))
    THEN LET top == Get(upload_response, "media_id", PyNone)
             media_id == IF Truthy(top) THEN top
                         ELSE Get(Get(upload_response, "data", EmptyDict),
                                  "media_id", PyNone)
         IN IF Truthy(media_id) THEN media_id ELSE PyNone
    ELSE PyNone

upload_media(media_url, outcome) ==
    IF outcome.status # 200 THEN PyNone ELSE MediaIdOf(outcome.response)

FailureDict(error) == Dict(<< <<"success", PyFalse>>, <<"error", error>> >>)

(* What post_tweet and _post_tweet_via_composio make of the response.      *)
SuccessVal(response) == Get(response, "success", Get(response, "successfull", PyNone))

(* a response without data.id taken for a failure *)
PostOutcome_NeedsId(response) ==
    IF response.t = "raise" THEN FailureDict(Str(response.v))
    ELSE IF Truthy(SuccessVal(response))
            /\ Get(response, "data", EmptyDict).t = "dict"
            /\ Get(Get(response, "data", EmptyDict), "data", EmptyDict).t = "dict"
            /\ Truthy(Get(Get(Get(response, "data", EmptyDict), "data", EmptyDict),
                          "id", PyNone))
    THEN Dict(<< <<"success", PyTrue>>,
                 <<"tweet_id", Get(Get(Get(response, "data", EmptyDict), "data", EmptyDict),
                                   "id", PyNone)>> >>)
    ELSE FailureDict(Get(response, "error", Str(<<"Unknown or missing success key">>)))

PostOutcome(response) ==
    IF response.t = "raise" THEN FailureDict(Str(response.v))
    ELSE IF Truthy(SuccessVal(response))
    THEN LET data_section == Get(response, "data", EmptyDict)
         IN IF data_section.t # "dict"
            THEN FailureDict(Str(<<"'NoneType' object has no attribute 'get'">>))
            ELSE LET nested_data == Get(data_section, "data", EmptyDict)
                 IN IF nested_data.t # "dict"
                    THEN FailureDict(Str(<<"'NoneType' object has no attribute 'get'">>))
                    ELSE Dict(<< <<"success", PyTrue>>,
                                 <<"tweet_id", Get(nested_data, "id", PyNone)>> >>)
    ELSE FailureDict(Get(response, "error", Str(<<"Unknown or missing success key">>)))

(* post_tweet(text, media_urls): the dict returned, the calls made and the *)
(* skill's posts_count afterwards.                                          *)
post_tweet(skill, text, media_urls, uploads, response) ==
    IF ~can_post(skill)
    THEN [result |-> FailureDict(Str(<<"Rate limit exceeded or skill disabled">>)),
          posts_count |-> skill.posts_count, calls |-> <<>>, media_ids |-> <<>>]
    ELSE LET got == [i \in DOMAIN media_urls |-> upload_media(media_urls[i], uploads[i])]
             media_ids == SelectSeq(got, Truthy)
             outcome == PostOutcome(response)
         IN [result |-> outcome,
             posts_count |-> IF Truthy(Get(outcome, "success", PyNone))
                             THEN skill.posts_count + 1 ELSE skill.posts_count,
             calls |-> [i \in DOMAIN media_urls |->
                            Call("upload_media", media_urls[i], got[i])]
                       \o <<Call("post", [text |-> text, media_ids |-> media_ids],
                                 response)>>,
             media_ids |-> media_ids]

(***************************************************************************)
(* ActivityResult and the record of one invocation of execute.  exit is    *)
(* the source line of the return statement the invocation left through.    *)
(***************************************************************************)
ActivityResult(success, data, error) ==
    [success |-> success, data |-> data, error |-> error]

NoRun ==
    [result |-> ActivityResult(FALSE, PyNone, PyNone),
     recent_memories |-> <<>>, content |-> <<>>, calls |-> <<>>, media_ids |-> <<>>,
     activity |-> "none", exit |-> 0, used_memories_last_time |-> <<>>,
     new_memories |-> <<>>, drawing_urls |-> <<>>, tweet_text |-> <<>>]

(* the cut made at max_length, with no room left for the ellipsis *)
Truncate_NoRoom(tweet_text, max_length) ==
    IF Len(tweet_text) > max_length
    THEN SubSeq(tweet_text, 1, max_length) \o <<".", ".", ".">>
    ELSE tweet_text

(* tweet_text[: max_length - 3] + "..." when len(tweet_text) > max_length  *)
Truncate(tweet_text, max_length) ==
    IF Len(tweet_text) > max_length
    THEN SubSeq(tweet_text, 1, max_length - 3) \o <<".", ".", ".">>
    ELSE tweet_text

PRMT_max_length == 280

PTA_max_length == 500

UnknownPostError == Str(<<"Unknown error posting tweet via Composio">>)

(* The exception raised while the chat response is read:                  *)
(* chat_response["success"], chat_response["error"],                       *)
(* chat_response["data"]["content"].strip(); Absent when none is raised.    *)
ChatError(chat_response) ==
    IF chat_response.t = "raise" THEN chat_response
    ELSE IF chat_response.t # "dict"
    THEN Raise("'NoneType' object is not subscriptable")
    ELSE IF ~HasKey(chat_response, "success") THEN Raise("'success'")
    ELSE IF ~Truthy(Get(chat_response, "success", PyNone))
    THEN IF HasKey(chat_response, "error") THEN Absent ELSE Raise("'error'")
    ELSE IF ~HasKey(chat_response, "data") THEN Raise("'data'")
    ELSE IF Get(chat_response, "data", PyNone).t # "dict"
    THEN Raise("'NoneType' object is not subscriptable")
    ELSE IF ~HasKey(Get(chat_response, "data", PyNone), "content") THEN Raise("'content'")
    ELSE IF Get(Get(chat_response, "data", PyNone), "content", PyNone).t # "str"
    THEN Raise("'NoneType' object has no attribute 'strip'")
    ELSE Absent

(* except Exception as e: return ActivityResult(success=False, error=str(e)) *)
Caught(e) == ActivityResult(FALSE, PyNone, StrOf(e))

(* the failure reported without naming the chat skill *)
InitFailure_Unnamed == ActivityResult(FALSE, PyNone, Str(<<"Initialization failed">>))

InitFailure ==
    ActivityResult(FALSE, PyNone, Str(<<"Failed to initialize chat skill">>))

(* the backend's message replaced by a fixed one *)
ChatFailure_Generic(chat_response) ==
    ActivityResult(FALSE, PyNone, Str(<<"Failed to generate tweet">>))

(* return ActivityResult(success=False, error=chat_response["error"]) *)
ChatFailure(chat_response) ==
    ActivityResult(FALSE, PyNone, Get(chat_response, "error", PyNone))

(* recent_memories_used left out of the result *)
PostedData_NoMemories(tweet_id, tweet_text, new_memories) ==
    Dict(<< <<"tweet_id", tweet_id>>, <<"content", Str(tweet_text)>> >>)

(* the data of PostRecentMemoriesTweetActivity's success result *)
PostedData(tweet_id, tweet_text, new_memories) ==
    Dict(<< <<"tweet_id", tweet_id>>,
            <<"content", Str(tweet_text)>>,
            <<"recent_memories_used", List(new_memories)>> >>)

(***************************************************************************)
(* PostRecentMemoriesTweetActivity.execute.  env holds the collaborators'  *)
(* answers: init (chat_skill.initialize), chat (get_chat_completion),      *)
(* uploads (one outcome per media upload) and post (the posting API).      *)
(***************************************************************************)
PRMT_execute(mem, limit, env) ==
    LET start == [NoRun EXCEPT !.activity = PRMT]
        c_init == <<Call("initialize", <<>>, env.init)>>
        recent_memories == _get_recent_memories(mem, limit)
        c_recent == c_init \o <<Call("get_recent_activities", RecentWindow, env.reads[1])>>
        used == _get_memories_used_last_time(mem)
        c_used == c_recent \o <<Call("get_recent_activities", UsedWindow, env.reads[2])>>
        new_memories == FilterNew(recent_memories, used)
        drawing_urls == _extract_drawing_urls(new_memories)
        c_chat == c_used \o <<Call("get_chat_completion", new_memories, env.chat)>>
        content == Get(Get(env.chat, "data", EmptyDict), "content", Str(<<>>)).v
        tweet_text == Truncate(strip(content), PRMT_max_length)
        posted == post_tweet(XAPISkill(TRUE, DefaultRateLimit), tweet_text,
                             drawing_urls, env.uploads, env.post)
        seen == [start EXCEPT !.recent_memories = recent_memories]
        deduped == [seen EXCEPT !.used_memories_last_time = used,
                                !.new_memories = new_memories]
        asked == [deduped EXCEPT !.drawing_urls = drawing_urls, !.calls = c_chat]
        sent == [asked EXCEPT !.content = content, !.tweet_text = tweet_text,
                              !.media_ids = posted.media_ids,
                              !.calls = c_chat \o posted.calls]
    IN IF env.init.t = "raise"
       THEN [start EXCEPT !.exit = 153, !.calls = c_init, !.result = Caught(env.init)]
       ELSE IF ~Truthy(env.init)
       THEN [start EXCEPT !.exit = 48, !.calls = c_init, !.result = InitFailure]
       ELSE IF env.reads[1].t = "raise"
       THEN [start EXCEPT !.exit = 153, !.calls = c_recent,
                 !.result = Caught(env.reads[1])]
       ELSE IF recent_memories = <<>>
       THEN [seen EXCEPT !.exit = 64, !.calls = c_recent,
                 !.result = ActivityResult(TRUE,
                                Dict(<< <<"message", Str(<<"No recent memories to share.">>)>> >>),
                                PyNone)]
       ELSE IF env.reads[2].t = "raise"
       THEN [seen EXCEPT !.exit = 153, !.calls = c_used,
                 !.result = Caught(env.reads[2])]
       ELSE IF new_memories = <<>>
       THEN [deduped EXCEPT !.exit = 80, !.calls = c_used,
                 !.result = ActivityResult(TRUE,
                                Dict(<< <<"message", Str(<<"No new memories to tweet.">>)>> >>),
                                PyNone)]
       ELSE IF ChatError(env.chat) # Absent
       THEN [asked EXCEPT !.exit = 153, !.result = Caught(ChatError(env.chat))]
       ELSE IF ~Truthy(Get(env.chat, "success", PyNone))
       THEN [asked EXCEPT !.exit = 104, !.result = ChatFailure(env.chat)]
       ELSE IF ~Truthy(Get(posted.result, "success", PyNone))
       THEN [sent EXCEPT !.exit = 121,
                 !.result = ActivityResult(FALSE, PyNone,
                                Get(posted.result, "error", UnknownPostError))]
       ELSE [sent EXCEPT !.exit = 134,
                 !.result = ActivityResult(TRUE,
                                PostedData(Get(posted.result, "tweet_id", PyNone),
                                           tweet_text, new_memories),
                                PyNone)]

(* The media URLs a run on this store would upload: one outcome each.      *)
PRMT_urls(mem, limit) ==
    _extract_drawing_urls(FilterNew(_get_recent_memories(mem, limit),
                                    _get_memories_used_last_time(mem)))

(***************************************************************************)
(* PostTweetActivity.  env holds init, chat, can_generate                  *)
(* (ImageGenerationSkill.can_generate), image (generate_image), upload     *)
(* (the outcome of the media upload) and post (the posting API).           *)
(***************************************************************************)
RecentTweetsLimit == 10

_get_recent_tweets(mem, limit) ==
    LET acts == get_recent_activities(mem, RecentWindow)
        posted == SelectSeq(acts, LAMBDA act :
                      /\ act.activity_type = PTA
                      /\ act.success
                      /\ Truthy(Get(act.data, "content", Str(<<>>))))
    IN Take([i \in DOMAIN posted |-> Get(posted[i].data, "content", Str(<<>>)).v], limit)

ImageOk(url) ==
    Dict(<< <<"success", PyTrue>>, <<"image_data", Dict(<< <<"url", Str(url)>> >>)>> >>)

ImageNoUrl == Dict(<< <<"success", PyTrue>> >>)

ImageFailed == Dict(<< <<"success", PyFalse>>, <<"error", Str(<<"quota">>)>> >>)

(* upload_image_to_twitter(image_url): [media_id] or [] *)
upload_image_to_twitter(image_url, outcome) ==
    LET media_id == IF outcome.status # 200 THEN PyNone ELSE MediaIdOf(outcome.response)
    IN IF Truthy(media_id) THEN <<media_id>> ELSE <<>>

(* The exception raised while the image result is read:                    *)
(* image_result.get("success") and                                         *)
(* image_result.get("image_data", {}).get("url"); Absent when none.         *)
ImageError(image_result) ==
    IF image_result.t = "raise" THEN image_result
    ELSE IF image_result.t # "dict"
    THEN Raise("'NoneType' object has no attribute 'get'")
    ELSE IF Truthy(Get(image_result, "success", PyNone))
            /\ Get(image_result, "image_data", EmptyDict).t # "dict"
    THEN Raise("'NoneType' object has no attribute 'get'")
    ELSE Absent

(* _generate_image_for_tweet: the calls made, the media ids returned and   *)
(* the exception that leaves it (Absent when it returns): it catches none. *)
_generate_image_for_tweet(tweet_text, env) ==
    LET c_can == <<Call("can_generate", <<>>, env.can_generate)>>
        c_gen == c_can \o <<Call("generate_image", tweet_text, env.image)>>
        url == Get(Get(env.image, "image_data", EmptyDict), "url", PyNone)
        media_ids == upload_image_to_twitter(url.v, env.upload)
    IN IF env.can_generate.t = "raise"
       THEN [calls |-> c_can, media_ids |-> <<>>, raised |-> env.can_generate]
       ELSE IF ~Truthy(env.can_generate)
       THEN [calls |-> c_can, media_ids |-> <<>>, raised |-> Absent]
       ELSE IF ImageError(env.image) # Absent
       THEN [calls |-> c_gen, media_ids |-> <<>>, raised |-> ImageError(env.image)]
       ELSE IF Truthy(Get(env.image, "success", PyNone)) /\ Truthy(url)
       THEN [calls |-> c_gen \o <<Call("upload_image_to_twitter", url.v, media_ids)>>,
             media_ids |-> media_ids, raised |-> Absent]
       ELSE [calls |-> c_gen, media_ids |-> <<>>, raised |-> Absent]

_post_tweet_via_composio(tweet_text, media_ids, response) ==
    [result |-> PostOutcome(response),
     calls |-> <<Call("post", [text |-> tweet_text, media_ids |-> media_ids], response)>>]

PTA_execute(mem, env) ==
    LET start == [NoRun EXCEPT !.activity = PTA]
        c_init == <<Call("initialize", <<>>, env.init)>>
        recent_tweets == _get_recent_tweets(mem, RecentTweetsLimit)
        c_read == c_init \o <<Call("get_recent_activities", RecentWindow, env.read)>>
        c_chat == c_read \o <<Call("get_chat_completion", recent_tweets, env.chat)>>
        content == Get(Get(env.chat, "data", EmptyDict), "content", Str(<<>>)).v
        tweet_text == Truncate(strip(content), PTA_max_length)
        image == _generate_image_for_tweet(tweet_text, env)
        posted == _post_tweet_via_composio(tweet_text, image.media_ids, env.post)
        asked == [start EXCEPT !.calls = c_chat]
        drawn == [start EXCEPT !.content = content, !.tweet_text = tweet_text,
                               !.calls = c_chat \o image.calls]
        sent == [drawn EXCEPT !.media_ids = image.media_ids,
                              !.calls = c_chat \o image.calls \o posted.calls]
    IN IF env.init.t = "raise"
       THEN [start EXCEPT !.exit = 106, !.calls = c_init, !.result = Caught(env.init)]
       ELSE IF ~Truthy(env.init)
       THEN [start EXCEPT !.exit = 45, !.calls = c_init, !.result = InitFailure]
       ELSE IF env.read.t = "raise"
       THEN [start EXCEPT !.exit = 106, !.calls = c_read, !.result = Caught(env.read)]
       ELSE IF ChatError(env.chat) # Absent
       THEN [asked EXCEPT !.exit = 106, !.result = Caught(ChatError(env.chat))]
       ELSE IF ~Truthy(Get(env.chat, "success", PyNone))
       THEN [asked EXCEPT !.exit = 62, !.result = ChatFailure(env.chat)]
       ELSE IF image.raised # Absent
       THEN [drawn EXCEPT !.exit = 106, !.result = Caught(image.raised)]
       ELSE IF ~Truthy(Get(posted.result, "success", PyNone))
       THEN [sent EXCEPT !.exit = 78,
                 !.result = ActivityResult(FALSE, PyNone,
                                Get(posted.result, "error", UnknownPostError))]
       ELSE [sent EXCEPT !.exit = 89,
                 !.result = ActivityResult(TRUE,
                                Dict(<< <<"tweet_id", Get(posted.result, "tweet_id", PyNone)>>,
                                        <<"content", Str(tweet_text)>> >>),
                                PyNone)]

(***************************************************************************)
(* The actions.  The framework runs one activity at a time and appends the *)
(* outcome of each run to the memory store; other activities leave their   *)
(* own records there.  Each action is given the answers the collaborators  *)
(* may return and the size the store may grow to.                          *)
(***************************************************************************)
CountType(mem, types) == Cardinality({i \in DOMAIN mem : mem[i].activity_type \in types})

RecordActivity(Records, max_store, max_other) ==
    /\ Len(memory) < max_store
    /\ CountType(memory, {PRMT, PTA}) + max_other > Len(memory)
    /\ \E r \in Records : memory' = Append(memory, r)
    /\ run' = NoRun
    /\ UNCHANGED <<num_activities_to_fetch, x_api, posting>>

RunPostRecentMemoriesTweet(Inits, Reads, Chats, Uploads, Posts, max_store, max_runs) ==
    /\ Len(memory) < max_store
    /\ CountType(memory, {PRMT}) < max_runs
    /\ \E init \in Inits, reads \in [1..2 -> Reads], chat \in Chats, post \in Posts :
         \E uploads \in [DOMAIN PRMT_urls(memory, num_activities_to_fetch) -> Uploads] :
            run' = PRMT_execute(memory, num_activities_to_fetch,
                                [uploads |-> uploads, post |-> post,
                                 chat |-> chat, init |-> init, reads |-> reads])
    /\ memory' = Append(memory, StoredRecord(PRMT, run'.result))
    /\ UNCHANGED <<num_activities_to_fetch, x_api, posting>>

RunPostTweet(Inits, Reads, Chats, Cans, Images, Uploads, Posts, max_store) ==
    /\ Len(memory) < max_store
    /\ \E init \in Inits, read \in Reads, chat \in Chats, can \in Cans, image \in Images,
          upload \in Uploads, post \in Posts :
            run' = PTA_execute(memory, [post |-> post, chat |-> chat, init |-> init,
                                        can_generate |-> can, image |-> image,
                                        upload |-> upload, read |-> read])
    /\ memory' = Append(memory, StoredRecord(PTA, run'.result))
    /\ UNCHANGED <<num_activities_to_fetch, x_api, posting>>

(* In the runs of the activities the shared skill instance is left alone: *)
(* PostRecentMemoriesTweetActivity builds an XAPISkill of its own.         *)
NobodyPosting ==
    /\ x_api = XAPISkill(TRUE, DefaultRateLimit)
    /\ posting = <<>>

(***************************************************************************)
(* Spec: both activities and the store, every collaborator succeeding or   *)
(* failing.                                                                *)
(***************************************************************************)
(* chat_skill.initialize() and can_generate() answering True or False;    *)
(* the store returning its records                                         *)
Yes == {PyTrue}

No == {PyFalse}

YesOrNo == {PyTrue, PyFalse}

StoreReads == {StoreRead}

MaxStore == 4

MaxFetch == 1

Nap == ActivityRecord("NapActivity", TRUE, NapData)

Draw(data) == ActivityRecord("DrawActivity", TRUE, data)

(* " Had a wonderful day!\n" as the backend returns it *)
Wonderful ==
    <<" ", "H", "a", "d", " ", "a", " ", "w", "o", "n", "d", "e", "r", "f", "u", "l",
      " ", "d", "a", "y", "!", " ">>

Chats == {ChatOk(Wonderful), ChatFailed("model overloaded")}

Uploads == {UploadOk("m1"), UploadNotFound, UploadRefused}

Posts == {PostOk, PostFailed}

ImageAnswers == {ImageOk(UrlDog), ImageNoUrl, ImageFailed}

(* what the other activities leave in the store *)
Activities == {Nap, Draw(DrawCat)}

Init ==
    /\ memory = <<>>
    /\ num_activities_to_fetch \in (0..MaxFetch) \cup {DefaultFetch}
    /\ run = NoRun
    /\ NobodyPosting

Next ==
    \/ RecordActivity(Activities, MaxStore, MaxStore)
    \/ RunPostRecentMemoriesTweet(YesOrNo, StoreReads, Chats, Uploads, Posts, MaxStore, MaxStore)
    \/ RunPostTweet(YesOrNo, StoreReads, Chats, YesOrNo, ImageAnswers,
                    Uploads, Posts, MaxStore)

Spec == Init /\ [][Next]_vars

(***************************************************************************)
(* What the properties read off a state.                                   *)
(***************************************************************************)
(* the store as the last run found it *)
Before == SubSeq(memory, 1, Len(memory) - 1)

CallsTo(ops) == {i \in DOMAIN run.calls : run.calls[i].op \in ops}

SendingOps == {"generate_image", "upload_media", "upload_image_to_twitter", "post"}

(* new is all without the entries of used, in the order of all *)
IsDifference(new, all, used) ==
    LET kept == {i \in DOMAIN all : \A j \in DOMAIN used : used[j] # all[i]}
    IN /\ Len(new) = Cardinality(kept)
       /\ \A i \in kept : new[Cardinality({j \in kept : j <= i})] = all[i]

Message(text) == Dict(<< <<"message", Str(<<text>>)>> >>)

C3_DigestExcludesIgnored ==
    run.activity = PRMT =>
        \A i \in DOMAIN run.recent_memories :
            LET entry == run.recent_memories[i]
            IN /\ entry[1] \notin {PRMT, PTA}
               /\ \E j \in DOMAIN Before :
                    /\ Before[j].activity_type \notin {PRMT, PTA}
                    /\ Summary(Before[j]) = entry

C3_Witness ==
    /\ run.activity = PRMT
    /\ Len(Before) >= 3
    /\ Before[Len(Before)].activity_type = PTA
    /\ Before[Len(Before) - 1].activity_type = PRMT
    /\ run.recent_memories # <<>>

(***************************************************************************)
(* C7.  The result of PostRecentMemoriesTweetActivity.execute holds        *)
(* recent_memories_used only when the post submission succeeded; it is     *)
(* then the list of digest entries given to the prompt (all of the digest  *)
(* when nothing was used before) and content is the text submitted, the    *)
(* stripped generated text when that fits.  A failed run and a run with    *)
(* nothing new record no recent_memories_used.                             *)
(***************************************************************************)
C7_UsedRecordedOnSuccess ==
    run.activity = PRMT =>
        LET data == run.result.data
            posts == CallsTo({"post"})
            chats == CallsTo({"get_chat_completion"})
            recorded == data.t = "dict" /\ HasKey(data, "recent_memories_used")
            succeeded == \E p \in posts : run.calls[p].ret = PostOk
        IN /\ recorded <=> succeeded
           /\ ~run.result.success => ~recorded
           /\ run.exit \in {64, 80} => ~recorded
           /\ recorded =>
                /\ run.result.success
                /\ \E c \in chats :
                     /\ Get(data, "recent_memories_used", PyNone) = List(run.calls[c].arg)
                     /\ LET generated == strip(Get(Get(run.calls[c].ret, "data", EmptyDict),
                                                   "content", PyNone).v)
                        IN Len(generated) <= PRMT_max_length
                              => Get(data, "content", PyNone) = Str(generated)
                /\ \A q \in posts : Get(data, "content", PyNone) = Str(run.calls[q].arg.text)
                /\ run.used_memories_last_time = <<>>
                     => Get(data, "recent_memories_used", PyNone) = List(run.recent_memories)

(* the end-to-end example: three digest entries, nothing used before *)
C7_Witness ==
    /\ run.activity = PRMT
    /\ run.result.success
    /\ run.used_memories_last_time = <<>>
    /\ Len(run.recent_memories) = 3
    /\ Get(run.result.data, "recent_memories_used", PyNone) = List(run.recent_memories)
    /\ Get(run.result.data, "content", PyNone) = Str(strip(Wonderful))

(***************************************************************************)
(* C8.  In both activities, when the chat completion reports failure,      *)
(* execute returns a failure whose error is the backend's message; the     *)
(* chat completion was called once and is the last call of the run: no     *)
(* image generation, media upload or post submission follows.              *)
(***************************************************************************)
C8_ChatFailureAborts ==
    \A c \in CallsTo({"get_chat_completion"}) :
        ~Truthy(Get(run.calls[c].ret, "success", PyNone)) =>
            /\ ~run.result.success
            /\ run.result.error = Get(run.calls[c].ret, "error", PyNone)
            /\ run.result.error.t = "str"
            /\ CallsTo({"get_chat_completion"}) = {c}
            /\ c = Len(run.calls)
            /\ CallsTo(SendingOps \cup {"can_generate"}) = {}

C8_Witness ==
    /\ run.activity = PTA
    /\ run.exit = 62
    /\ \E i \in DOMAIN Before :
         /\ Before[i].activity_type = PRMT
         /\ ~Before[i].success

(***************************************************************************)
(* C4.  _get_recent_memories(limit=N) returns at most N entries, for every *)
(* N, N = 0 included.                                                      *)
(***************************************************************************)
C4_AtMostRequested ==
    run.activity = PRMT => Len(run.recent_memories) <= num_activities_to_fetch

(***************************************************************************)
(* SpecHistory: a long history.  Runs of PostRecentMemoriesTweetActivity   *)
(* among the records of another activity and the runs of                   *)
(* PostTweetActivity, every collaborator succeeding.                       *)
(***************************************************************************)
HistoryStore == 13

HistoryOther == 1

HistoryRuns == 2

InitHistory ==
    /\ memory = <<>>
    /\ num_activities_to_fetch = DefaultFetch
    /\ run = NoRun
    /\ NobodyPosting

NextHistory ==
    \/ RecordActivity({Nap}, HistoryStore, HistoryOther)
    \/ RunPostRecentMemoriesTweet(Yes, StoreReads, {ChatOk(Wonderful)}, {UploadOk("m1")}, {PostOk},
                                  HistoryStore, HistoryRuns)
    \/ RunPostTweet(Yes, StoreReads, {ChatOk(Wonderful)}, No, {ImageFailed}, {UploadNotFound},
                    {PostOk}, HistoryStore)

SpecHistory == InitHistory /\ [][NextHistory]_vars

(* the entries a stored run of PostRecentMemoriesTweetActivity posted *)
UsedBy(act) ==
    IF act.activity_type = PRMT /\ act.success
    THEN Get(act.data, "recent_memories_used", List(<<>>)).v
    ELSE <<>>

(***************************************************************************)
(* C1.  Whatever records lie between them, a run of                        *)
(* PostRecentMemoriesTweetActivity that posts uses no digest entry that    *)
(* the successful posting run before it used.                              *)
(***************************************************************************)
C1_NoRepostOfPreviousRun ==
    \A i, j \in DOMAIN memory :
        (/\ i < j
         /\ UsedBy(memory[i]) # <<>>
         /\ UsedBy(memory[j]) # <<>>
         /\ \A k \in (i + 1)..(j - 1) : UsedBy(memory[k]) = <<>>)
        => Range(UsedBy(memory[i])) \cap Range(UsedBy(memory[j])) = {}

(***************************************************************************)
(* SpecText: the length of the text.  One run of either activity on a      *)
(* store of one record, the backend returning texts around max_length,     *)
(* padded with whitespace.                                                 *)
(***************************************************************************)
MaxPad == 2

MaxOver == 3

TextStore == 2

Blanks(n) == [i \in 1..n |-> " "]

Body(n) == [i \in 1..n |-> IF i % 5 = 0 THEN " " ELSE IF i % 2 = 0 THEN "a" ELSE "b"]

TextsAround(max_length) ==
    {Blanks(lead) \o Body(n) \o Blanks(trail) :
        lead \in 0..MaxPad, trail \in 0..MaxPad,
        n \in {1} \cup ((max_length - MaxOver)..(max_length + MaxOver))}

(* the backend's answers in each activity *)
PRMT_Chats == {ChatOk(t) : t \in TextsAround(PRMT_max_length)}

PTA_Chats == {ChatOk(t) : t \in TextsAround(PTA_max_length)}

InitText ==
    /\ memory = <<Nap>>
    /\ num_activities_to_fetch = DefaultFetch
    /\ run = NoRun
    /\ NobodyPosting

NextText ==
    \/ RunPostRecentMemoriesTweet(Yes, StoreReads, PRMT_Chats,
                                  {UploadOk("m1")}, {PostOk}, TextStore, TextStore)
    \/ RunPostTweet(Yes, StoreReads, PTA_Chats, No,
                    {ImageFailed}, {UploadNotFound}, {PostOk}, TextStore)

SpecText == InitText /\ [][NextText]_vars

(* text without its leading and trailing whitespace *)
Stripped(text) ==
    LET inked == {i \in DOMAIN text : text[i] # " "}
        lo == CHOOSE i \in inked : \A j \in inked : i <= j
        hi == CHOOSE i \in inked : \A j \in inked : j <= i
    IN IF inked = {} THEN <<>> ELSE SubSeq(text, lo, hi)

MaxLengthOf(activity) == IF activity = PRMT THEN PRMT_max_length ELSE PTA_max_length

(***************************************************************************)
(* C5.  In both activities the text submitted for posting is the stripped  *)
(* generated text when that is at most max_length long; when it is longer, *)
(* the text submitted is max_length long, ends with '...' and starts with  *)
(* the first max_length - 3 characters of the generated text.              *)
(***************************************************************************)
C5_TruncatedToMaxLength ==
    \A p \in CallsTo({"post"}) : \A c \in CallsTo({"get_chat_completion"}) :
        LET generated == Stripped(Get(Get(run.calls[c].ret, "data", EmptyDict),
                                      "content", PyNone).v)
            max_length == MaxLengthOf(run.activity)
            text == run.calls[p].arg.text
        IN IF Len(generated) > max_length
           THEN /\ Len(text) = max_length
                /\ SubSeq(text, max_length - 2, max_length) = <<".", ".", ".">>
                /\ SubSeq(text, 1, max_length - 3) = SubSeq(generated, 1, max_length - 3)
           ELSE text = generated

C5_Witness ==
    /\ run.activity = PTA
    /\ Len(Stripped(run.content)) > PTA_max_length
    /\ Len(run.content) > Len(Stripped(run.content))
    /\ \E p \in CallsTo({"post"}) : Len(run.calls[p].arg.text) = PTA_max_length

(***************************************************************************)
(* SpecUrls: the drawing URLs.  One run of                                 *)
(* PostRecentMemoriesTweetActivity on a store of records whose data is     *)
(* any of DataPool, uploads succeeding or not.                             *)
(***************************************************************************)
MaxEntries == 2

Drawings == {Nap} \cup {Draw(d) : d \in DataPool \ {NapData}}

Stores(n) == UNION {[1..k -> Drawings] : k \in 1..n}

UrlUploads == {UploadOk("m1"), UploadNotFound}

InitUrls ==
    /\ memory \in Stores(MaxEntries)
    /\ num_activities_to_fetch = DefaultFetch
    /\ run = NoRun
    /\ NobodyPosting

NextUrls ==
    RunPostRecentMemoriesTweet(Yes, StoreReads, {ChatOk(Wonderful)}, UrlUploads,
                               {PostOk}, MaxEntries + 1, 1)

SpecUrls == InitUrls /\ [][NextUrls]_vars

(* the URL has a scheme and a host: scheme://host... *)
HasSchemeAndHost(url) ==
    /\ Len(url) >= 4
    /\ url[1] \notin Delimiters
    /\ url[2] = ":"
    /\ url[3] = "//"
    /\ url[4] \notin Delimiters

(* the URLs the digest entry of a DrawActivity record is to contribute:    *)
(* its data's image_data.url when that has a scheme and a host             *)
ClaimedUrlsOf(entry) ==
    LET drawn == {d \in DataPool : Summary(Draw(d)) = entry}
        data == CHOOSE d \in drawn : TRUE
        image_data == Get(data, "image_data", EmptyDict)
        url == Get(image_data, "url", PyNone)
    IN IF drawn # {} /\ url.t = "str" /\ HasSchemeAndHost(url.v) THEN <<url.v>> ELSE <<>>

(***************************************************************************)
(* C6.  _extract_drawing_urls returns, in the order of the entries, the    *)
(* image_data.url of every DrawActivity entry whose URL has a scheme and a *)
(* host, whatever else the entry's data holds; an entry whose URL lacks    *)
(* either, or whose data cannot be parsed, contributes nothing and stops   *)
(* nothing.                                                                *)
(***************************************************************************)
C6_WellFormedUrlsExtracted ==
    (run.activity = PRMT /\ run.new_memories # <<>>) =>
        run.drawing_urls
            = Concat([i \in DOMAIN run.new_memories |-> ClaimedUrlsOf(run.new_memories[i])])

(***************************************************************************)
(* SpecPost: the posting API's response.  One run of either activity on a  *)
(* store of one record, the response holding any combination of the keys   *)
(* "success", "successfull", "error" and "data", or the call raising.      *)
(***************************************************************************)
PostStore == 2

Indicators == {Absent, PyTrue, PyFalse}

PostResponses ==
    {PostResponse(success, successfull, error, data) :
        success \in Indicators, successfull \in Indicators,
        error \in {Absent, Str(<<"duplicate content">>)},
        data \in {Absent, PyNone, PostData(Absent), PostData(TweetId)}}
    \cup {Raise("connection reset")}

InitPost ==
    /\ memory = <<Nap>>
    /\ num_activities_to_fetch = DefaultFetch
    /\ run = NoRun
    /\ NobodyPosting

NextPost ==
    \/ RunPostRecentMemoriesTweet(Yes, StoreReads, {ChatOk(Wonderful)}, {UploadOk("m1")},
                                  PostResponses, PostStore, PostStore)
    \/ RunPostTweet(Yes, StoreReads, {ChatOk(Wonderful)}, No, {ImageFailed}, {UploadNotFound},
                    PostResponses, PostStore)

SpecPost == InitPost /\ [][NextPost]_vars

(* the response carries a success indicator, and every spelling it carries *)
(* is truthy                                                               *)
IndicatesSuccess(response) ==
    /\ response.t = "dict"
    /\ HasKey(response, "success") \/ HasKey(response, "successfull")
    /\ HasKey(response, "success") => Truthy(Get(response, "success", PyNone))
    /\ HasKey(response, "successfull") => Truthy(Get(response, "successfull", PyNone))

(***************************************************************************)
(* C9.  In both activities a post submission is reported as success only   *)
(* if the response carries a truthy success indicator: when the indicator  *)
(* is false or missing, or the spellings 'success' and 'successfull'       *)
(* disagree, execute returns a failure with an error message.              *)
(***************************************************************************)
C9_OnlyIndicatedSuccess ==
    \A p \in CallsTo({"post"}) :
        ~IndicatesSuccess(run.calls[p].ret) =>
            /\ ~run.result.success
            /\ run.result.error.t = "str"
            /\ run.result.error.v # <<>>

(* the id the response carries at data.data.id, None when it carries none *)
ResponseId(response) ==
    IF /\ HasKey(response, "data")
       /\ Get(response, "data", PyNone).t = "dict"
       /\ HasKey(Get(response, "data", PyNone), "data")
       /\ HasKey(Get(Get(response, "data", PyNone), "data", PyNone), "id")
    THEN Get(Get(Get(response, "data", PyNone), "data", PyNone), "id", PyNone)
    ELSE PyNone

FaultStore == 3

UploadRaised == [status |-> 200, response |-> Raise("upload timed out")]

PostFailedNoError == PostResponse(Absent, PyFalse, PyNone, Absent)

FaultInits == {PyTrue, PyFalse, Raise("chat skill unavailable")}

FaultReads == {StoreRead, Raise("database is locked")}

FaultChats ==
    {ChatOk(Wonderful), ChatFailed("model overloaded"), Raise("connection reset"),
     RaiseNoMessage, PyNone, Dict(<< <<"success", PyFalse>> >>)}

FaultCans == {PyTrue, PyFalse, Raise("quota service down")}

FaultImages == {ImageOk(UrlDog), ImageFailed, Raise("image backend error"), PyNone}

FaultUploads == {UploadOk("m1"), UploadNotFound, UploadRefused, UploadRaised}

FaultPosts == {PostOk, PostFailed, Raise("connection reset"), PostFailedNoError}

FaultStores ==
    {<<Nap, Draw(DrawCat)>>, <<Draw(DrawDog), Draw(DrawCat)>>, <<Nap, Nap>>}

InitFaults ==
    /\ memory \in FaultStores
    /\ num_activities_to_fetch = DefaultFetch
    /\ run = NoRun
    /\ NobodyPosting

NextFaults ==
    \/ RunPostRecentMemoriesTweet(FaultInits, FaultReads, FaultChats, FaultUploads,
                                  FaultPosts, FaultStore, FaultStore)
    \/ RunPostTweet(FaultInits, FaultReads, FaultChats, FaultCans, FaultImages,
                    FaultUploads, FaultPosts, FaultStore)

SpecFaults == InitFaults /\ [][NextFaults]_vars

(* the chat completion of the run returned the tweet text *)
TextGenerated ==
    \E c \in CallsTo({"get_chat_completion"}) :
        /\ run.calls[c].ret.t = "dict"
        /\ Truthy(Get(run.calls[c].ret, "success", PyNone))
        /\ Get(run.calls[c].ret, "data", PyNone).t = "dict"
        /\ Get(Get(run.calls[c].ret, "data", PyNone), "content", PyNone).t = "str"

(* the media ids the uploads of the run returned, in the order of the calls *)
RECURSIVE ObtainedIds(_)
ObtainedIds(calls) ==
    IF calls = <<>> THEN <<>>
    ELSE LET c == Head(calls)
             ids == IF c.op = "upload_media"
                    THEN (IF Truthy(c.ret) THEN <<c.ret>> ELSE <<>>)
                    ELSE IF c.op = "upload_image_to_twitter" THEN c.ret
                    ELSE <<>>
         IN ids \o ObtainedIds(Tail(calls))

(***************************************************************************)
(* C11.  In both activities, once the tweet text has been generated, no    *)
(* failure of image generation or of a media upload (an unsuccessful       *)
(* result, a download that is not 200, a missing media id, an exception    *)
(* raised by the call) prevents the post submission: the post is submitted *)
(* exactly once, as the last call, with the text and with exactly the      *)
(* media ids obtained, in order, and the run succeeds exactly when the     *)
(* post submission does.                                                   *)
(***************************************************************************)
C11_MediaFailureNeverPreventsPost ==
    TextGenerated =>
        /\ Cardinality(CallsTo({"post"})) = 1
        /\ \A p \in CallsTo({"post"}) :
             /\ p = Len(run.calls)
             /\ run.calls[p].arg.text = run.tweet_text
             /\ run.calls[p].arg.media_ids = ObtainedIds(run.calls)
             /\ run.result.success <=> IndicatesSuccess(run.calls[p].ret)

(* the return statements of the two execute methods *)
ReturnLines(activity) ==
    IF activity = PRMT THEN {48, 64, 80, 104, 121, 134, 153} ELSE {45, 62, 78, 89, 106}

(***************************************************************************)
(* C12.  Whatever the collaborators do (memory read, chat initialization,  *)
(* chat completion, image generation, upload, post: succeeding, answering  *)
(* with a failure, answering with a malformed value, raising), execute of  *)
(* both activities ends at one of its return statements, and every failure *)
(* result it returns has success = false and a non-empty error message.    *)
(***************************************************************************)
C12_FailureCarriesMessage ==
    run.activity \in {PRMT, PTA} =>
        /\ run.exit \in ReturnLines(run.activity)
        /\ ~run.result.success =>
              /\ run.result.error.t = "str"
              /\ run.result.error.v # <<>>

(***************************************************************************)
(* C13.  In both activities chat-skill initialization is the first step of *)
(* execute, and when it reports not ready execute returns a failure with   *)
(* the error 'Failed to initialize chat skill' and makes no other call in  *)
(* that run: no memory read, no chat completion, no image generation, no   *)
(* media upload and no post submission.                                    *)
(***************************************************************************)
C13_InitFailureAborts ==
    run.activity \in {PRMT, PTA} =>
        /\ run.calls[1].op = "initialize"
        /\ CallsTo({"initialize"}) = {1}
        /\ run.calls[1].ret = PyFalse =>
              /\ ~run.result.success
              /\ run.result.error = Str(<<"Failed to initialize chat skill">>)
              /\ Len(run.calls) = 1
              /\ CallsTo(SendingOps \cup {"get_recent_activities", "get_chat_completion",
                                          "can_generate"}) = {}

(* initialization not ready on a store whose drawing a run would have posted *)
C13_Witness ==
    /\ run.activity = PRMT
    /\ run.calls[1].ret = PyFalse
    /\ run.exit = 48
    /\ PRMT_urls(Before, num_activities_to_fetch) # <<>>

(***************************************************************************)
(* SpecDigest: the digest on a long store.  Up to MaxOld records of other  *)
(* activities, then about RecentWindow records of PostTweetActivity, then  *)
(* up to MaxNew records of other activities; one run of                    *)
(* PostRecentMemoriesTweetActivity asking for 0..MaxAsk entries.           *)
(***************************************************************************)
MaxOld == 2

MaxNew == 2

MaxAsk == 3

Tweeted == ActivityRecord(PTA, FALSE, EmptyDict)

SeqsUpTo(S, n) == UNION {[1..k -> S] : k \in 0..n}

LongStores ==
    {old \o [i \in 1..k |-> Tweeted] \o new :
        old \in SeqsUpTo(Activities, MaxOld),
        k \in (RecentWindow - 2)..RecentWindow,
        new \in SeqsUpTo(Activities, MaxNew)}

InitDigest ==
    /\ memory \in LongStores
    /\ num_activities_to_fetch \in 0..MaxAsk
    /\ run = NoRun
    /\ NobodyPosting

NextDigest ==
    RunPostRecentMemoriesTweet(Yes, StoreReads, {ChatOk(Wonderful)}, {UploadOk("m1")},
                               {PostOk}, RecentWindow + MaxOld + MaxNew + 1, 1)

SpecDigest == InitDigest /\ [][NextDigest]_vars

(* the i-th most recent record of the store the run found *)
Recent(i) == Before[Len(Before) + 1 - i]

(* the positions, newest first, of the records the digest is made of: the  *)
(* first limit records that are not ignored among the 50 most recent       *)
DigestPositions(limit) ==
    LET window == 1..(IF Len(Before) > 50 THEN 50 ELSE Len(Before))
        kept == {i \in window : Recent(i).activity_type \notin {PRMT, PTA}}
    IN {i \in kept : Cardinality({j \in kept : j <= i}) <= limit}

(***************************************************************************)
(* C14.  _get_recent_memories(limit=N) returns exactly the digest strings  *)
(* '{type} => {data}' of the first N records that are not ignored among    *)
(* the 50 most recent records of the store, newest first (fewer than N     *)
(* only when there are fewer); no record beyond the 50 most recent         *)
(* appears.                                                                *)
(***************************************************************************)
C14_ExactDigest ==
    run.activity = PRMT =>
        LET taken == DigestPositions(num_activities_to_fetch)
        IN /\ Len(run.recent_memories) = Cardinality(taken)
           /\ \A i \in taken :
                run.recent_memories[Cardinality({j \in taken : j <= i})]
                    = <<Recent(i).activity_type, " ", "=>", " ">> \o Repr(Recent(i).data)

(* the platform's length limit, the one both prompts ask the model to keep *)
PlatformLimit == 280

(***************************************************************************)
(* C15.  In both activities the text passed to the post submission never   *)
(* exceeds the platform length limit of 280 characters, whatever text the  *)
(* chat-completion backend returns.                                        *)
(***************************************************************************)
C15_WithinPlatformLimit ==
    \A p \in CallsTo({"post"}) : Len(run.calls[p].arg.text) <= PlatformLimit

(***************************************************************************)
(* SpecSkill: one XAPISkill instance and the post_tweet calls made on it   *)
(* by tasks of one event loop.  A call runs without interruption from one  *)
(* await that suspends to the next: it suspends in upload_media, at the    *)
(* download of each media URL (session.get, response.read); the upload of  *)
(* the downloaded image and the post submission are synchronous calls.     *)
(* While a call is suspended other calls start and resume, and             *)
(* reset_counts is called.                                                 *)
(***************************************************************************)
MaxCalls == 3

MaxRate == 2

MaxUrls == 2

SkillUrls == {[i \in 1..n |-> IF i % 2 = 1 THEN UrlDog ELSE UrlCat] : n \in 0..MaxUrls}

SkillDownloads == {UploadOk("m1"), UploadNotFound}

SkillPosts == {PostOk, PostFailed}

Skills == {XAPISkill(enabled, rate_limit) : enabled \in BOOLEAN, rate_limit \in 0..MaxRate}

(* A post_tweet call starts: the can_post check, and the call's code up to *)
(* its first suspension, which is its end when the check fails or there is *)
(* no media URL.  allowed, before and after note what can_post answered    *)
(* and posts_count around the call's last step.                            *)
StartPostTweet(Urls, Responses, max_calls) ==
    /\ Len(posting) < max_calls
    /\ \E media_urls \in Urls, response \in Responses :
         IF can_post(x_api) /\ media_urls # <<>>
         THEN /\ posting' = Append(posting,
                     [result |-> PyNone, text |-> Wonderful, media_urls |-> media_urls,
                      calls |-> <<>>, media_ids |-> <<>>,
                      allowed |-> TRUE, before |-> x_api.posts_count,
                      after |-> x_api.posts_count, suspended |-> TRUE])
              /\ x_api' = x_api
         ELSE LET done == post_tweet(x_api, Wonderful, media_urls, <<>>, response)
              IN /\ posting' = Append(posting,
                        [result |-> done.result,
                         text |-> Wonderful, media_urls |-> media_urls,
                         calls |-> done.calls, media_ids |-> done.media_ids,
                         allowed |-> can_post(x_api), before |-> x_api.posts_count,
                         after |-> done.posts_count, suspended |-> FALSE])
                 /\ x_api' = [x_api EXCEPT !.posts_count = done.posts_count]
    /\ UNCHANGED <<memory, num_activities_to_fetch, run>>

(* A suspended call resumes: the download it awaited ends, the image is    *)
(* uploaded, and the call goes on to the download of the next URL, or,     *)
(* after the last, submits the post, counts it and returns.                *)
ResumePostTweet(Downloads, Responses) ==
    /\ \E c \in DOMAIN posting, outcome \in Downloads, response \in Responses :
         /\ posting[c].suspended
         /\ LET call == posting[c]
                url == call.media_urls[Len(call.calls) + 1]
                media_id == upload_media(url, outcome)
                calls == Append(call.calls, Call("upload_media", url, media_id))
                media_ids == IF Truthy(media_id) THEN Append(call.media_ids, media_id)
                             ELSE call.media_ids
            IN IF Len(calls) < Len(call.media_urls)
               THEN /\ posting' = [posting EXCEPT ![c].calls = calls,
                                                  ![c].media_ids = media_ids]
                    /\ x_api' = x_api
               ELSE LET result == PostOutcome(response)
                        posts_count == IF Truthy(Get(result, "success", PyNone))
                                       THEN x_api.posts_count + 1
                                       ELSE x_api.posts_count
                    IN /\ posting' = [posting EXCEPT ![c] =
                              [result |-> result,
                               text |-> call.text, media_urls |-> call.media_urls,
                               calls |-> Append(calls,
                                                Call("post", [text |-> call.text,
                                                              media_ids |-> media_ids],
                                                     response)),
                               media_ids |-> media_ids,
                               allowed |-> call.allowed, before |-> x_api.posts_count,
                               after |-> posts_count, suspended |-> FALSE]]
                       /\ x_api' = [x_api EXCEPT !.posts_count = posts_count]
    /\ UNCHANGED <<memory, num_activities_to_fetch, run>>

reset_counts ==
    /\ x_api' = [x_api EXCEPT !.posts_count = 0]
    /\ UNCHANGED <<memory, num_activities_to_fetch, run, posting>>

InitSkill ==
    /\ memory = <<>>
    /\ num_activities_to_fetch = DefaultFetch
    /\ run = NoRun
    /\ x_api \in Skills
    /\ posting = <<>>

NextSkill ==
    \/ StartPostTweet(SkillUrls, SkillPosts, MaxCalls)
    \/ ResumePostTweet(SkillDownloads, SkillPosts)
    \/ reset_counts

SpecSkill == InitSkill /\ [][NextSkill]_vars

Succeeded(call) == Truthy(Get(call.result, "success", PyNone))

(***************************************************************************)
(* C16.  On one XAPISkill instance with rate_limit R >= 0, whatever        *)
(* post_tweet and reset_counts calls are made, calls that overlap          *)
(* included: posts_count never exceeds R; a call that has returned raised  *)
(* posts_count by exactly 1 when it succeeded and left it unchanged when   *)
(* it failed; and a call started while the skill was disabled or           *)
(* posts_count >= R returned the failure 'Rate limit exceeded or skill     *)
(* disabled' and made no upload and no post submission.                    *)
(***************************************************************************)
C16_RateLimitRespected ==
    /\ x_api.posts_count <= x_api.rate_limit
    /\ \A c \in DOMAIN posting :
         ~posting[c].suspended =>
            /\ posting[c].after = posting[c].before
                                    + (IF Succeeded(posting[c]) THEN 1 ELSE 0)
            /\ ~posting[c].allowed =>
                  /\ posting[c].result
                        = FailureDict(Str(<<"Rate limit exceeded or skill disabled">>))
                  /\ posting[c].calls = <<>>

====
